---- MODULE Spec2Model ----
(***************************************************************************)
(* Reconstruction job pipeline of colmap-mvp (src/main.py): the job        *)
(* dictionary kept in `jobs`, the scan store of src/database.py, the       *)
(* per-job working directory written by the COLMAP stages, and the driver  *)
(* process_video_pipeline that sequences the stages.                       *)
(***************************************************************************)
EXTENDS Integers, Sequences, FiniteSets, TLC

\* ------------------------------------------------------------------ bounds
\* number of component directories under sparse/ when the selection among
\* them is examined (SpecSelector)
MaxComponents == 2
\* number of component directories the mapper leaves in a whole pipeline run
\* (Spec)
MaxJobComponents == 1

\* ------------------------------------------------------- program constants
\* main.py:840  `if frame_count < 15`
MinFrames == 15
\* main.py:798  `max_points // 43`
BytesPerPoint == 43

\* ------------------------------------------------------------ input domains
JobIds == {"j1"}
\* tiers a client may send in the `quality` form field; "ultra" is not a tier
Qualities == {"low", "medium", "high", "extreme", "ultra"}
\* total frames of the uploaded video
VideoFrameCounts == {5, 14, 15}
\* byte sizes of a component's points3D.bin
Sizes == {100, 4300}
\* how an external command ends: exit 0, non-zero exit, subprocess timeout
Outcomes == {"ok", "nonzero", "timeout"}

\* the service variants of the repository, each a separate process with its
\* own `jobs`: src/main.py, src/colmap-worker/main.py and
\* src/python-colmap-service/main.py; "colmap-pipeline" is a process that
\* calls the library src/colmap-worker/colmap_pipeline.py directly
Services == {"main", "colmap-worker", "python-colmap-service", "colmap-pipeline"}

VARIABLES
    service,            \* which of the service variants this process is
    jobs,               \* the service's `jobs`: job_id -> job dictionary
    scans,              \* database.py table scans: scan_id -> [status]
    scan_technical_details, \* database.py table scan_technical_details
    pc,                 \* position of the background task of each job
    locals,             \* local variables of the background task
    disk,               \* the job's working directory /tmp/colmap_<job_id>
    calls,              \* stages and commands invoked for a job, in order
    storage,            \* files on the persistent volume /persistent-data
    response,           \* the last HTTP response an endpoint returned
    resolved,           \* the stage parameters resolved for two requests
    results_dir,        \* a job directory of an earlier run, as the repair utility finds it
    unified             \* process-unified runs accepted for a scan and not yet finished

vars == <<service, jobs, scans, scan_technical_details, pc, locals, disk, calls,
          storage, response, resolved,
          results_dir,
          unified>>

\* ------------------------------------------------------- python dictionaries
\* d[k] = v
Put(d, k, v) == (k :> v) @@ d
\* d.get(k, default)
Get(d, k, default) == IF k \in DOMAIN d THEN d[k] ELSE default
\* the scan row created for a job (db.create_scan returns a fresh id)
ScanOf(j) == <<"scan", j>>
\* the scan identifiers a request can name
ScanIds == {ScanOf(j) : j \in JobIds}

\* ---------------------------------------------------------- working directory
\* sparse: the entries of sparse/ in the order iterdir() yields them
EmptyDisk ==
    [thumbnail |-> FALSE, database |-> FALSE, sparse |-> << >>,
     sparse_ply |-> FALSE, fused_ply |-> FALSE]

NoLocals ==
    [quality |-> "low", frame_count |-> 0, has_stats |-> FALSE,
     num_3d_points |-> 0, ply_path |-> FALSE, results_urls |-> << >>,
     step |-> 0]

\* ------------------------------------------------------ persistent volume
\* Paths are sequences of segments from the file system root. storage holds
\* the paths of the regular files; a directory exists when a file lies below
\* it, and STORAGE_DIR itself is created at start-up (main.py:174-175).
STORAGE_DIR == <<"persistent-data", "results">>
\* main.py:178
DATABASE_PATH == <<"persistent-data", "database.db">>

IsPrefix(p, q) == Len(p) <= Len(q) /\ SubSeq(q, 1, Len(p)) = p
IsFile(fs, p) == p \in fs
IsDir(fs, p) ==
    \/ IsPrefix(p, STORAGE_DIR)
    \/ \E f \in fs : Len(p) < Len(f) /\ IsPrefix(p, f)
Parent(p) == IF p = << >> THEN p ELSE SubSeq(p, 1, Len(p) - 1)

\* the files upload_results_to_storage leaves in STORAGE_DIR/job_id for the
\* entries of its result map (main.py:1036-1075)
StoredArtifacts(job_id, results) ==
    LET dir == STORAGE_DIR \o <<job_id>>
    IN  (IF "point_cloud_url" \in DOMAIN results
         THEN {dir \o <<"point_cloud.ply">>} ELSE {})
        \cup (IF "sparse_model_url" \in DOMAIN results
              THEN {dir \o <<"sparse_model.zip">>} ELSE {})
        \cup (IF "sample_images_dir" \in DOMAIN results
              THEN {dir \o <<"images", "frame_000000.jpg">>} ELSE {})

NoResponse == [endpoint |-> "none", code |-> 0]

\* no job directory under data/results
NoFile == [exists |-> FALSE]
NoResultsDir ==
    [zip |-> [present |-> FALSE], ply |-> NoFile, old |-> NoFile,
     temp |-> FALSE, runs |-> 0, chosen |-> -1]

\* the two requests whose resolved stage parameters are kept side by side
Requests == {"a", "b"}
NoParams == [resolver |-> "none"]

\* ------------------------------------------------------------------- Init
Init ==
    /\ storage = {DATABASE_PATH}
    /\ response = NoResponse
    /\ unified = [scan_id \in ScanIds |-> 0]
    /\ results_dir = NoResultsDir
    /\ resolved = [r \in Requests |-> NoParams]
    /\ service \in Services
    /\ jobs = << >>
    /\ scans = << >>
    /\ scan_technical_details = {}
    /\ pc = [j \in JobIds |-> "none"]
    /\ locals = [j \in JobIds |-> NoLocals]
    /\ disk = [j \in JobIds |-> EmptyDisk]
    /\ calls = [j \in JobIds |-> << >>]

\* ------------------------------------------------------------ upload_video
\* main.py:1367-1442. The scan row gets the table's default status.
upload_video(j, quality) ==
    /\ service = "main"
    /\ pc[j] = "none"
    /\ scans' = Put(scans, ScanOf(j), [status |-> "pending"])
    /\ jobs' = Put(jobs, j,
            [scan_id |-> ScanOf(j), status |-> "pending",
             message |-> <<"Video uploaded, processing queued">>,
             quality |-> quality, progress |-> 0,
             current_stage |-> "Pending"])
    /\ locals' = [locals EXCEPT ![j].quality = quality]
    /\ pc' = [pc EXCEPT ![j] = "queued"]
    /\ UNCHANGED <<unified, results_dir, resolved, response, storage,
                   service, scan_technical_details, disk, calls>>

\* An except handler that starts the progress display over.
ExceptHandler_ResetsProgress(job, e, etype) ==
    Put(Put(Put(Put(job, "status", "failed"),
                "progress", 0),
            "message", <<"Processing failed: ", e>>),
        "error_details",
        [stage |-> Get(job, "current_stage", "Unknown"),
         error |-> e, type |-> etype])

\* ------------------------------------------------------ the except handler
\* main.py:999-1016. `job` is the job dictionary as the failing stage left it.
\* update_scan_status is called inside its own try: a store error is logged
\* and the scan row keeps its status.
ExceptHandler(job, e, etype) ==
    Put(Put(Put(Put(job, "status", "failed"),
                "progress", Get(job, "progress", 0)),
            "message", <<"Processing failed: ", e>>),
        "error_details",
        [stage |-> Get(job, "current_stage", "Unknown"),
         error |-> e, type |-> etype])

Fail(j, job, e, etype, dbOk) ==
    /\ jobs' = Put(jobs, j, ExceptHandler(job, e, etype))
    /\ scans' = IF dbOk
                THEN Put(scans, job.scan_id, [status |-> "failed"])
                ELSE scans
    /\ pc' = [pc EXCEPT ![j] = "finally"]

\* one entry of the invocation log
Call(op, arg, outcome) == [op |-> op, arg |-> arg, outcome |-> outcome]
Log(j, entries) == [calls EXCEPT ![j] = @ \o entries]

\* A stage wrapper that swallows TimeoutExpired and reports success.
StageOk_TimeoutIsSuccess(outcome) == outcome \in {"ok", "timeout"}

\* subprocess.run(..., timeout=...) followed by the returncode test:
\* main.py:312-322, 367-377, 414-429, 468-481, 512-519, 542-549, 569-576.
\* True only for exit status 0; TimeoutExpired is caught and gives False.
StageOk(outcome) == outcome = "ok"

\* A driver that announces the first stage without marking the job
\* processing.
StartPipeline_StaysPending(j) ==
    /\ pc[j] = "queued"
    /\ jobs' = Put(jobs, j,
            Put(Put(jobs[j], "current_stage", "Frame Extraction"),
                "progress", 10))
    /\ pc' = [pc EXCEPT ![j] = "frames"]
    /\ UNCHANGED <<unified, results_dir, resolved, response, storage,
                   service, scans, scan_technical_details, locals, disk,
                   calls>>

\* ------------------------------------------------------------ StartPipeline
\* main.py:823-828
StartPipeline(j) ==
    /\ pc[j] = "queued"
    /\ jobs' = Put(jobs, j,
            Put(Put(Put(jobs[j], "status", "processing"),
                    "current_stage", "Frame Extraction"),
                "progress", 10))
    /\ pc' = [pc EXCEPT ![j] = "frames"]
    /\ UNCHANGED <<unified, results_dir, resolved, response, storage,
                   service, scans, scan_technical_details, locals, disk,
                   calls>>

\* ---------------------------------------------------------- FrameExtraction
\* main.py:835
MaxFramesFor(quality) ==
    IF quality = "low" THEN 50 ELSE IF quality = "medium" THEN 80 ELSE 120

\* main.py:222-268: every interval-th frame of the video is written
ExtractedFrames(total, max_frames) ==
    LET q == total \div max_frames
        interval == IF q > 1 THEN q ELSE 1
    IN  (total + interval - 1) \div interval

\* A threshold test that is off by one.
EnoughFrames_OffByOne(frame_count) == frame_count >= MinFrames - 1

\* main.py:840: the policy threshold on the number of extracted frames
EnoughFrames(frame_count) == frame_count >= MinFrames

\* main.py:830-855. thumb: cv2.imwrite stored thumbnail.jpg. When it did, the
\* pipeline calls db.update_scan_status(scan_id, "processing", path) with
\* three arguments; database.py:243 takes two, so the call raises TypeError.
FrameExtraction(j, total, thumb, dbOk) ==
    /\ pc[j] = "frames"
    /\ LET job1 == Put(jobs[j], "message", <<"Extracting frames from video...">>)
           frame_count == ExtractedFrames(total, MaxFramesFor(locals[j].quality))
       IN  /\ calls' = Log(j, <<Call("extract_frames", -1, "ok")>>)
           /\ locals' = [locals EXCEPT ![j].frame_count = frame_count]
           /\ disk' = [disk EXCEPT ![j].thumbnail = thumb]
           /\ storage' = IF EnoughFrames(frame_count) /\ thumb
                         THEN storage \cup {STORAGE_DIR \o <<j, "thumbnail.jpg">>}
                         ELSE storage
           /\ IF ~EnoughFrames(frame_count)
              THEN Fail(j, job1, "Not enough frames extracted", "Exception", dbOk)
              ELSE IF thumb
              THEN Fail(j, job1, "update_scan_status() takes 3 positional arguments",
                        "TypeError", dbOk)
              ELSE /\ jobs' = Put(jobs, j, Put(job1, "progress", 20))
                   /\ pc' = [pc EXCEPT ![j] = "features"]
                   /\ scans' = scans
    /\ UNCHANGED <<unified, results_dir, resolved, response, service,
                   scan_technical_details>>

\* --------------------------------------------------------- FeatureDetection
\* main.py:857-865 with run_feature_extraction, main.py:270-322
FeatureDetection(j, outcome, dbOk) ==
    /\ pc[j] = "features"
    /\ LET job1 == Put(Put(jobs[j], "current_stage", "Feature Detection"),
                       "message", <<"Detecting features in images...">>)
       IN  /\ calls' = Log(j, <<Call("feature_extractor", -1, outcome)>>)
           /\ disk' = [disk EXCEPT ![j].database = TRUE]
           /\ IF StageOk(outcome)
              THEN /\ jobs' = Put(jobs, j, Put(job1, "progress", 40))
                   /\ pc' = [pc EXCEPT ![j] = "matching"]
                   /\ scans' = scans
              ELSE Fail(j, job1, "Feature extraction failed", "Exception", dbOk)
    /\ UNCHANGED <<unified, results_dir, resolved, response, storage,
                   service, scan_technical_details, locals>>

\* ---------------------------------------------------------- FeatureMatching
\* main.py:867-875 with run_feature_matching, main.py:324-377
FeatureMatching(j, outcome, dbOk) ==
    /\ pc[j] = "matching"
    /\ LET job1 == Put(Put(jobs[j], "current_stage", "Feature Matching"),
                       "message", <<"Matching features between images (exhaustive)...">>)
       IN  /\ calls' = Log(j, <<Call("exhaustive_matcher", -1, outcome)>>)
           /\ IF StageOk(outcome)
              THEN /\ jobs' = Put(jobs, j, Put(job1, "progress", 60))
                   /\ pc' = [pc EXCEPT ![j] = "sparse"]
                   /\ scans' = scans
              ELSE Fail(j, job1, "Feature matching failed", "Exception", dbOk)
    /\ UNCHANGED <<unified, results_dir, resolved, response, storage,
                   service, scan_technical_details, locals, disk>>

\* ----------------------------------------------------- SparseReconstruction
\* One directory entry of sparse/: whether cameras.bin and points3D.bin
\* exist in it, and the byte size of points3D.bin (0 when it is missing).
\* The mapper names the directories sparse/0, sparse/1, ...
Components(n) ==
    { c \in [name : 0 .. (n - 1), cameras : BOOLEAN, points : BOOLEAN,
             size : Sizes \cup {0}] :
        c.points <=> (c.size \in Sizes) }

\* What the mapper may leave in sparse/, in the order iterdir() lists it:
\* any number of components up to n, in any order.
Listings(n) ==
    UNION { { s \in [1 .. k -> Components(n)] :
                \A a, b \in 1 .. k : a # b => s[a].name # s[b].name } :
            k \in 0 .. n }

\* main.py:877-885 with run_sparse_reconstruction, main.py:379-429
SparseReconstruction(j, outcome, listing, dbOk) ==
    /\ pc[j] = "sparse"
    /\ LET job1 == Put(Put(jobs[j], "current_stage", "Sparse Reconstruction"),
                       "message", <<"Creating sparse 3D model...">>)
       IN  /\ calls' = Log(j, <<Call("mapper", -1, outcome)>>)
           /\ IF StageOk(outcome)
              THEN /\ disk' = [disk EXCEPT ![j].sparse = listing]
                   /\ jobs' = Put(jobs, j, Put(job1, "progress", 80))
                   /\ pc' = [pc EXCEPT ![j] = "stats"]
                   /\ scans' = scans
              ELSE /\ disk' = disk
                   /\ Fail(j, job1, "Sparse reconstruction failed", "Exception", dbOk)
    /\ UNCHANGED <<unified, results_dir, resolved, response, storage,
                   service, scan_technical_details, locals>>

\* ------------------------------------------------------- Best-Model Selector
\* Python max(models, key=size): the first entry, in list order, whose size
\* no other entry exceeds.
MaxBySize(models) ==
    LET i == CHOOSE a \in 1 .. Len(models) :
                /\ \A b \in 1 .. Len(models) : models[b].size <= models[a].size
                /\ \A b \in 1 .. (a - 1) : models[b].size < models[a].size
    IN  models[i]

\* A validity test that looks at points3D.bin only, as
\* get_reconstruction_stats does.
IsValidModel_PointsOnly(c) == c.points

\* main.py:439-442 and 487-490: the entries that count as a sparse model
IsValidModel(c) == c.cameras /\ c.points

\* main.py:439-457 (export_sparse_to_ply) and main.py:487-500
\* (run_dense_reconstruction): -1 stands for None
FindBestModel(listing) ==
    LET sparse_models == SelectSeq(listing, IsValidModel)
    IN  IF sparse_models = << >> THEN -1 ELSE MaxBySize(sparse_models).name

\* main.py:782-798 (get_reconstruction_stats): only points3D.bin is looked
\* at, and an entry replaces the best one only when strictly larger
StatsMaxPoints(listing) ==
    LET with_points == SelectSeq(listing, LAMBDA c : c.points)
    IN  IF with_points = << >> THEN 0 ELSE MaxBySize(with_points).size

StatsBestModel(listing) ==
    LET with_points == SelectSeq(listing, LAMBDA c : c.points /\ c.size > 0)
    IN  IF with_points = << >> THEN -1 ELSE MaxBySize(with_points).name

\* ----------------------------------------------------------- AnalyzeQuality
\* main.py:887-908 with get_reconstruction_stats, main.py:751-818. statsOk:
\* the sqlite queries on database.db succeeded; otherwise the function
\* returns None.
AnalyzeQuality(j, statsOk) ==
    /\ pc[j] = "stats"
    /\ LET job1 == Put(Put(jobs[j], "current_stage", "Analyzing Quality"),
                       "message", <<"Analyzing reconstruction quality...">>)
           has_stats == disk[j].database /\ statsOk
           num_3d_points == StatsMaxPoints(disk[j].sparse) \div BytesPerPoint
           job2 == IF has_stats
                   THEN Put(job1, "reconstruction_stats",
                            [num_3d_points |-> num_3d_points])
                   ELSE job1
       IN  /\ jobs' = Put(jobs, j, Put(job2, "progress", 85))
           /\ locals' = [locals EXCEPT ![j].has_stats = has_stats,
                                       ![j].num_3d_points =
                                           IF has_stats THEN num_3d_points ELSE 0]
    /\ pc' = [pc EXCEPT ![j] = "export"]
    /\ UNCHANGED <<unified, results_dir, resolved, response, storage,
                   service, scans, scan_technical_details, disk, calls>>

\* --------------------------------------------------------- ExportPointCloud
\* main.py:910-921 with export_sparse_to_ply, main.py:431-481. written: the
\* converter left sparse_point_cloud.ply in the working directory.
ExportPointCloud(j, outcome, written, dbOk) ==
    /\ pc[j] = "export"
    /\ LET job1 == Put(Put(jobs[j], "current_stage", "Exporting Point Cloud"),
                       "message", <<"Exporting 3D model to PLY format...">>)
           best == FindBestModel(disk[j].sparse)
           ply_path == best # -1 /\ StageOk(outcome) /\ written
       IN  /\ calls' = IF best = -1 THEN calls
                       ELSE Log(j, <<Call("model_converter", best, outcome)>>)
           /\ disk' = [disk EXCEPT ![j].sparse_ply = (best # -1 /\ written)]
           /\ locals' = [locals EXCEPT ![j].ply_path = ply_path]
           /\ IF ply_path
              THEN /\ jobs' = Put(jobs, j, job1)
                   /\ pc' = [pc EXCEPT ![j] = "dense"]
                   /\ scans' = scans
              ELSE Fail(j, job1, "Failed to export sparse model to PLY",
                        "Exception", dbOk)
    /\ UNCHANGED <<unified, results_dir, resolved, response, storage,
                   service, scan_technical_details>>

\* A tier test that runs the dense stage at every known tier.
DenseEnabled_AllTiers(quality) == quality \in {"low", "medium", "high"}

\* ------------------------------------------------------ DenseReconstruction
\* main.py:924
DenseEnabled(quality) == quality \in {"medium", "high"}

\* main.py:483-579 (run_dense_reconstruction). u, s, f: how image_undistorter,
\* patch_match_stereo and stereo_fusion end; a step runs only when the steps
\* before it returned exit status 0.
DenseCalls(best, u, s, f) ==
    IF best = -1 THEN << >>
    ELSE <<Call("image_undistorter", best, u)>>
         \o (IF StageOk(u) THEN <<Call("patch_match_stereo", best, s)>> ELSE << >>)
         \o (IF StageOk(u) /\ StageOk(s)
             THEN <<Call("stereo_fusion", best, f)>> ELSE << >>)

RunDenseOk(best, u, s, f) ==
    best # -1 /\ StageOk(u) /\ StageOk(s) /\ StageOk(f)

\* dense/fused.ply is the output file of stereo_fusion: it exists when the
\* step succeeded, and a step that was killed or exited non-zero may or may
\* not have left it (leftover).
FusedPlyAfter(best, u, s, f, leftover) ==
    best # -1 /\ StageOk(u) /\ StageOk(s) /\ (StageOk(f) \/ leftover)

\* A driver that lets a dense command that timed out raise out of the stage.
DenseReconstruction_TimeoutIsFatal(j, u, s, f, leftover) ==
    /\ pc[j] = "dense"
    /\ IF DenseEnabled(locals[j].quality)
       THEN LET best == FindBestModel(disk[j].sparse)
                job1 == Put(Put(Put(jobs[j], "current_stage", "Dense Reconstruction"),
                                "message", <<"Creating dense point cloud (GPU)...">>),
                            "progress", 90)
            IN  /\ calls' = Log(j, DenseCalls(best, u, s, f))
                /\ disk' = [disk EXCEPT ![j].fused_ply =
                                FusedPlyAfter(best, u, s, f, leftover)]
                /\ IF best # -1 /\ u = "timeout"
                   THEN Fail(j, job1, "Dense reconstruction timed out",
                             "TimeoutExpired", TRUE)
                   ELSE /\ jobs' = Put(jobs, j, job1)
                        /\ pc' = [pc EXCEPT ![j] = "upload"]
                        /\ scans' = scans
       ELSE /\ pc' = [pc EXCEPT ![j] = "upload"]
            /\ UNCHANGED <<jobs, calls, disk, scans>>
    /\ UNCHANGED <<unified, results_dir, resolved, response, storage,
                   service, scan_technical_details, locals>>

\* main.py:923-933. The return value of run_dense_reconstruction only picks
\* the log line.
DenseReconstruction(j, u, s, f, leftover) ==
    /\ pc[j] = "dense"
    /\ IF DenseEnabled(locals[j].quality)
       THEN LET best == FindBestModel(disk[j].sparse)
            IN  /\ jobs' = Put(jobs, j,
                        Put(Put(Put(jobs[j], "current_stage", "Dense Reconstruction"),
                                "message", <<"Creating dense point cloud (GPU)...">>),
                            "progress", 90))
                /\ calls' = Log(j, DenseCalls(best, u, s, f))
                /\ disk' = [disk EXCEPT ![j].fused_ply =
                                FusedPlyAfter(best, u, s, f, leftover)]
       ELSE UNCHANGED <<jobs, calls, disk>>
    /\ pc' = [pc EXCEPT ![j] = "upload"]
    /\ UNCHANGED <<unified, results_dir, resolved, response, storage,
                   service, scans, scan_technical_details, locals>>

\* ------------------------------------------------------------ UploadResults
\* main.py:1027-1081 (upload_results_to_storage). failAt: the step at which
\* a storage operation raises ("none": no error): creating the directory or
\* copying the point cloud ("copy"), writing the zip ("zip"), copying the
\* sample images ("images"). The exception is caught and recorded in the
\* map under "error"; what was recorded before it stays.
StorageFailures == {"none", "copy", "zip", "images"}

upload_results_to_storage(d, frame_count, failAt) ==
    LET r0 == << >>
        has_cloud == d.fused_ply \/ d.sparse_ply
        r1 == IF failAt = "copy" \/ ~has_cloud THEN r0
              ELSE Put(Put(r0, "point_cloud_url", "/results/{job_id}/point_cloud.ply"),
                       "point_cloud_type",
                       IF d.fused_ply THEN "dense" ELSE "sparse")
        r2 == IF failAt \in {"copy", "zip"} \/ d.sparse = << >> THEN r1
              ELSE Put(r1, "sparse_model_url", "/results/{job_id}/sparse_model.zip")
        r3 == IF failAt \in {"copy", "zip", "images"} \/ frame_count = 0 THEN r2
              ELSE Put(r2, "sample_images_dir", "/results/{job_id}/images/")
    IN  IF failAt = "none" \/ (failAt = "copy" /\ ~has_cloud)
        THEN r3
        ELSE Put(r3, "error", "Storage failed")

\* A driver that publishes the results map as soon as the packager returns,
\* before the technical details are saved.
UploadResults_PublishesEarly(j, failAt) ==
    /\ pc[j] = "upload"
    /\ jobs' = Put(jobs, j,
            Put(Put(Put(Put(jobs[j], "progress", 95),
                        "current_stage", "Uploading Results"),
                    "message", <<"Saving results...">>),
                "results",
                upload_results_to_storage(disk[j], locals[j].frame_count, failAt)))
    /\ calls' = Log(j, <<Call("upload_results_to_storage", -1,
                              IF failAt = "none" THEN "ok" ELSE "nonzero")>>)
    /\ locals' = [locals EXCEPT ![j].results_urls =
                    upload_results_to_storage(disk[j], locals[j].frame_count, failAt)]
    /\ storage' = storage \cup StoredArtifacts(j,
                    upload_results_to_storage(disk[j], locals[j].frame_count, failAt))
    /\ pc' = [pc EXCEPT ![j] = "details"]
    /\ UNCHANGED <<unified, results_dir, resolved, response, service, scans,
                   scan_technical_details, disk>>

\* main.py:935-941
UploadResults(j, failAt) ==
    /\ pc[j] = "upload"
    /\ jobs' = Put(jobs, j,
            Put(Put(Put(jobs[j], "progress", 95),
                    "current_stage", "Uploading Results"),
                "message", <<"Saving results...">>))
    /\ calls' = Log(j, <<Call("upload_results_to_storage", -1,
                              IF failAt = "none" THEN "ok" ELSE "nonzero")>>)
    /\ locals' = [locals EXCEPT ![j].results_urls =
                    upload_results_to_storage(disk[j], locals[j].frame_count, failAt)]
    /\ storage' = storage \cup StoredArtifacts(j,
                    upload_results_to_storage(disk[j], locals[j].frame_count, failAt))
    /\ pc' = [pc EXCEPT ![j] = "details"]
    /\ UNCHANGED <<unified, results_dir, resolved, response, service, scans,
                   scan_technical_details, disk>>

\* ----------------------------------------------------- SaveTechnicalDetails
\* main.py:965-984
TechnicalDetails(l) ==
    LET point_count == IF l.has_stats THEN l.num_3d_points
                       ELSE l.frame_count * 500
    IN  [point_count |-> point_count,
         processing_stages |->
            << [name |-> "Frame Extraction", status |-> "completed"],
               [name |-> "Feature Detection", status |-> "completed"],
               [name |-> "Feature Matching", status |-> "completed"],
               [name |-> "Sparse Reconstruction", status |-> "completed"] >>,
         results |-> l.results_urls]

\* SQL NULL in an integer column
NULL == -1

\* json.dumps, database.py:261-262: the text of a list and of a dictionary
\* with string values
json_array(list) == [array |-> list]
json_object(dict) == [object |-> {<<k, dict[k]>> : k \in DOMAIN dict}]

\* the rows of the table that belong to a scan
RowsOf(table, scan_id) == {r \in table : r.scan_id = scan_id}

\* the row the statement binds, database.py:264-283: a key the caller left
\* out is bound as NULL, the two JSON columns as the text of [] and {}. Of
\* the integer and real columns point_count stands for all; created_at
\* takes the table's default and time is not modelled.
RowFor(scan_id, technical_data) ==
    [scan_id |-> scan_id,
     point_count |-> Get(technical_data, "point_count", NULL),
     processing_stages |->
        json_array(Get(technical_data, "processing_stages", << >>)),
     results |-> json_object(Get(technical_data, "results", << >>))]

\* A plain INSERT into a table without the primary key.
save_scan_technical_details_InsertsRow(table, scan_id, technical_data) ==
    table \cup {RowFor(scan_id, technical_data)}

\* database.py:256-284 on the table of database.py:78-94. scan_id is the
\* primary key and the statement is INSERT OR REPLACE: the row of the scan,
\* if there is one, is deleted and the new row inserted.
save_scan_technical_details(table, scan_id, technical_data) ==
    (table \ RowsOf(table, scan_id)) \cup {RowFor(scan_id, technical_data)}

\* database.py:243-253 and 286-290: UPDATE changes the row of the scan and
\* creates none
update_scan_status(table, scan_id, status) ==
    IF scan_id \in DOMAIN table
    THEN Put(table, scan_id, [status |-> status])
    ELSE table

\* main.py:943-988 with save_scan_technical_details, database.py:256-293:
\* the row of the scan is replaced and the scan is marked completed in one
\* transaction; a store error (dbOk false) raises into the except handler.
SaveTechnicalDetails(j, dbOk, dbOk2) ==
    /\ pc[j] = "details"
    /\ LET scan_id == jobs[j].scan_id
       IN  IF dbOk
           THEN /\ scan_technical_details' =
                      save_scan_technical_details(scan_technical_details,
                            scan_id, TechnicalDetails(locals[j]))
                /\ scans' = update_scan_status(scans, scan_id, "completed")
                /\ pc' = [pc EXCEPT ![j] = "complete"]
                /\ jobs' = jobs
           ELSE /\ scan_technical_details' = scan_technical_details
                /\ Fail(j, jobs[j], "database error", "OperationalError", dbOk2)
    /\ UNCHANGED <<unified, results_dir, resolved, response, storage,
                   service, locals, disk, calls>>

\* ----------------------------------------------------------------- Complete
\* main.py:990-997
Complete(j) ==
    /\ pc[j] = "complete"
    /\ jobs' = Put(jobs, j,
            Put(Put(Put(Put(Put(jobs[j], "status", "completed"),
                            "progress", 100),
                        "current_stage", "Complete"),
                    "message", <<"3D reconstruction completed successfully!">>),
                "results", locals[j].results_urls))
    /\ pc' = [pc EXCEPT ![j] = "finally"]
    /\ UNCHANGED <<unified, results_dir, resolved, response, storage,
                   service, scans, scan_technical_details, locals, disk,
                   calls>>

\* ------------------------------------------------------------------ Cleanup
\* main.py:1018-1025: the finally block removes the working directory
Cleanup(j) ==
    /\ pc[j] = "finally"
    /\ disk' = [disk EXCEPT ![j] = EmptyDisk]
    /\ pc' = [pc EXCEPT ![j] = "done"]
    /\ UNCHANGED <<unified, results_dir, resolved, response, storage,
                   service, jobs, scans, scan_technical_details, locals,
                   calls>>

\* ======================================================================
\* src/colmap-worker/main.py: reconstruction_task
\* ======================================================================
\* The COLMAP commands of the task in the order it awaits them, with the
\* progress written before the command starts and after it returned (-1:
\* none is written): feature_extraction (main.py:205-236), feature_matching
\* (238-262), sparse_reconstruction (264-294), dense_reconstruction
\* (296-354), create_mesh (356-383).
WorkerSteps ==
    << [cmd |-> "feature_extractor", part |-> "sparse", before |-> 35, after |-> 45],
       [cmd |-> "exhaustive_matcher", part |-> "sparse", before |-> 50, after |-> 60],
       [cmd |-> "mapper", part |-> "sparse", before |-> 65, after |-> 75],
       [cmd |-> "image_undistorter", part |-> "dense", before |-> 80, after |-> -1],
       [cmd |-> "patch_match_stereo", part |-> "dense", before |-> 85, after |-> -1],
       [cmd |-> "stereo_fusion", part |-> "dense", before |-> 90, after |-> 95],
       [cmd |-> "poisson_mesher", part |-> "mesh", before |-> 97, after |-> -1] >>

\* colmap-worker/main.py:645-663: the parts the request asks for
WorkerWants(parameters, part) ==
    \/ part = "sparse"
    \/ part = "dense" /\ parameters.dense_reconstruction
    \/ part = "mesh" /\ parameters.meshing

\* the first step after step k that the request asks for; 0 when none is left
WorkerNextStep(parameters, k) ==
    LET later == { n \in (k + 1) .. Len(WorkerSteps) :
                        WorkerWants(parameters, WorkerSteps[n].part) }
    IN  IF later = {} THEN 0
        ELSE CHOOSE n \in later : \A m \in later : n <= m

\* colmap-worker/main.py:480-516
worker_start_reconstruction(j, dense, meshing) ==
    /\ service = "colmap-worker"
    /\ pc[j] = "none"
    /\ jobs' = Put(jobs, j,
            [status |-> "pending", progress |-> 0,
             message |-> <<"Starting COLMAP reconstruction pipeline...">>,
             type |-> "reconstruction",
             updated_at |-> "start_reconstruction",
             parameters |-> [dense_reconstruction |-> dense, meshing |-> meshing]])
    /\ pc' = [pc EXCEPT ![j] = "w_queued"]
    /\ UNCHANGED <<unified, results_dir, resolved, response, storage,
                   service, scans, scan_technical_details, locals, disk,
                   calls>>

\* colmap-worker/main.py:671-675
WorkerExcept(job, e) ==
    Put(Put(Put(job, "status", "failed"),
            "message", <<"COLMAP reconstruction failed: ", e>>),
        "updated_at", "reconstruction_task")

\* colmap-worker/main.py:608-620: the task starts and looks for the images
reconstruction_task(j, has_images) ==
    /\ pc[j] = "w_queued"
    /\ LET job1 == Put(Put(jobs[j], "status", "running"),
                       "updated_at", "reconstruction_task")
       IN  IF has_images
           THEN /\ jobs' = Put(jobs, j, job1)
                /\ pc' = [pc EXCEPT ![j] = "w_begin"]
                /\ locals' = [locals EXCEPT ![j].step =
                                WorkerNextStep(job1.parameters, 0)]
           ELSE /\ jobs' = Put(jobs, j, WorkerExcept(job1, "No images found"))
                /\ pc' = [pc EXCEPT ![j] = "done"]
                /\ locals' = locals
    /\ UNCHANGED <<unified, results_dir, resolved, response, storage,
                   service, scans, scan_technical_details, disk, calls>>

\* the writes of a stage method before it awaits run_colmap_command
WorkerBegin(j) ==
    /\ pc[j] = "w_begin"
    /\ LET st == WorkerSteps[locals[j].step]
       IN  jobs' = Put(jobs, j,
                Put(Put(jobs[j], "message", <<"running ", st.cmd>>),
                    "progress", st.before))
    /\ pc' = [pc EXCEPT ![j] = "w_run"]
    /\ UNCHANGED <<unified, results_dir, resolved, response, storage,
                   service, scans, scan_technical_details, locals, disk,
                   calls>>

\* run_colmap_command returns (colmap-worker/main.py:178-203). A non-zero
\* exit marks the job failed there, and again in the except clause of the
\* task (671-675). After the last command the task completes the job
\* (665-669).
WorkerEnd(j, outcome) ==
    /\ pc[j] = "w_run"
    /\ LET k == locals[j].step
           st == WorkerSteps[k]
           next == WorkerNextStep(jobs[j].parameters, k)
           job1 == IF st.after = -1 THEN jobs[j]
                   ELSE Put(jobs[j], "progress", st.after)
           results == [sparse_reconstruction |-> TRUE]
                      @@ (IF jobs[j].parameters.dense_reconstruction
                          THEN [dense_reconstruction |-> TRUE] ELSE << >>)
                      @@ (IF jobs[j].parameters.meshing
                          THEN [meshing |-> TRUE] ELSE << >>)
       IN  /\ calls' = Log(j, <<Call(st.cmd, -1, outcome)>>)
           /\ IF ~StageOk(outcome)
              THEN /\ jobs' = Put(jobs, j,
                        WorkerExcept(Put(Put(jobs[j], "status", "failed"),
                                         "message", <<"COLMAP processing failed: ", st.cmd>>),
                                     st.cmd))
                   /\ pc' = [pc EXCEPT ![j] = "done"]
                   /\ locals' = locals
              ELSE IF next # 0
              THEN /\ jobs' = Put(jobs, j, job1)
                   /\ pc' = [pc EXCEPT ![j] = "w_begin"]
                   /\ locals' = [locals EXCEPT ![j].step = next]
              ELSE /\ jobs' = Put(jobs, j,
                        Put(Put(Put(Put(Put(job1, "status", "completed"),
                                        "progress", 100),
                                    "message", <<"COLMAP reconstruction completed successfully!">>),
                                "results", results),
                            "updated_at", "reconstruction_task"))
                   /\ pc' = [pc EXCEPT ![j] = "done"]
                   /\ locals' = locals
    /\ UNCHANGED <<unified, results_dir, resolved, response, storage,
                   service, scans, scan_technical_details, disk>>

\* ======================================================================
\* src/python-colmap-service/main.py: process_colmap_reconstruction
\* ======================================================================
\* python-colmap-service/main.py:176-200. results is None until assigned:
\* the key is left out of the dictionary.
service_start_reconstruction(j) ==
    /\ service = "python-colmap-service"
    /\ pc[j] = "none"
    /\ jobs' = Put(jobs, j,
            [status |-> "pending", progress |-> 0,
             message |-> <<"Starting COLMAP reconstruction...">>])
    /\ pc' = [pc EXCEPT ![j] = "p_queued"]
    /\ UNCHANGED <<unified, results_dir, resolved, response, storage,
                   service, scans, scan_technical_details, locals, disk,
                   calls>>

\* python-colmap-service/main.py:300-306: the task marks the job processing
process_colmap_reconstruction(j) ==
    /\ pc[j] = "p_queued"
    /\ jobs' = Put(jobs, j, Put(jobs[j], "status", "processing"))
    /\ pc' = [pc EXCEPT ![j] = "p_running"]
    /\ UNCHANGED <<unified, results_dir, resolved, response, storage,
                   service, scans, scan_technical_details, locals, disk,
                   calls>>

\* python-colmap-service/main.py:308-322 and 389-393. The task either finds
\* no images or constructs COLMAPPipeline(images_path=..., output_path=...);
\* the class (python-colmap-service/colmap_pipeline.py:20) takes no such
\* arguments, so the constructor raises TypeError. Both ways the except
\* clause marks the job failed before any progress is written.
ServiceExcept(j, has_images) ==
    /\ pc[j] = "p_running"
    /\ jobs' = Put(jobs, j,
            Put(Put(jobs[j], "status", "failed"),
                "message",
                <<"COLMAP reconstruction failed: ",
                  IF has_images THEN "__init__() got an unexpected keyword argument"
                  ELSE "No images found">>))
    /\ pc' = [pc EXCEPT ![j] = "done"]
    /\ UNCHANGED <<unified, results_dir, resolved, response, storage,
                   service, scans, scan_technical_details, locals, disk,
                   calls>>

\* ======================================================================
\* src/colmap-worker/colmap_pipeline.py: run_complete_pipeline
\* ======================================================================
\* colmap_pipeline.py:391-414: the stages whose failure ends the run
RequiredStages ==
    <<"extract_frames", "feature_extraction", "feature_matching",
      "sparse_reconstruction">>
OptionalStages == {"dense_reconstruction", "create_mesh"}

\* A run that goes on to the next required stage whatever the last returned.
run_complete_pipeline_KeepsGoing(outcome, dense_reconstruction, meshing) ==
    [i \in 1 .. Len(RequiredStages) |->
        Call(RequiredStages[i], -1, outcome[RequiredStages[i]])]

\* colmap_pipeline.py:373-449: the stage methods the run invokes, in order.
\* outcome[s] is what the command of stage s does once invoked; the methods
\* run it with check=True and no timeout and turn an error into
\* success False.
run_complete_pipeline(outcome, dense_reconstruction, meshing) ==
    LET failed == {i \in 1 .. Len(RequiredStages) :
                        ~StageOk(outcome[RequiredStages[i]])}
        last == IF failed = {} THEN Len(RequiredStages)
                ELSE CHOOSE i \in failed : \A m \in failed : i <= m
        required == [i \in 1 .. last |->
                        Call(RequiredStages[i], -1, outcome[RequiredStages[i]])]
        dense == IF failed = {} /\ dense_reconstruction
                 THEN <<Call("dense_reconstruction", -1,
                             outcome.dense_reconstruction)>>
                 ELSE << >>
        mesh == IF failed = {} /\ meshing /\ dense_reconstruction
                    /\ StageOk(outcome.dense_reconstruction)
                THEN <<Call("create_mesh", -1, outcome.create_mesh)>>
                ELSE << >>
    IN  required \o dense \o mesh

\* one call of run_complete_pipeline for job j; the coroutine awaits only
\* its own blocking stage methods and runs from start to end
RunCompletePipeline(j, outcome, dense_reconstruction, meshing) ==
    /\ service = "colmap-pipeline"
    /\ pc[j] = "none"
    /\ calls' = Log(j, run_complete_pipeline(outcome, dense_reconstruction, meshing))
    /\ pc' = [pc EXCEPT ![j] = "done"]
    /\ UNCHANGED <<unified, results_dir, resolved, response, storage,
                   service, jobs, scans, scan_technical_details, locals, disk>>

Next ==
    \E j \in JobIds :
        \/ \E q \in Qualities : upload_video(j, q)
        \/ StartPipeline(j)
        \/ \E total \in VideoFrameCounts, thumb, dbOk \in BOOLEAN :
               FrameExtraction(j, total, thumb /\ total > 0, dbOk)
        \/ \E outcome \in Outcomes, dbOk \in BOOLEAN :
               FeatureDetection(j, outcome, dbOk)
        \/ \E outcome \in Outcomes, dbOk \in BOOLEAN :
               FeatureMatching(j, outcome, dbOk)
        \/ \E outcome \in Outcomes, listing \in Listings(MaxJobComponents), dbOk \in BOOLEAN :
               SparseReconstruction(j, outcome, listing, dbOk)
        \/ \E statsOk \in BOOLEAN : AnalyzeQuality(j, statsOk)
        \/ \E outcome \in Outcomes, written, dbOk \in BOOLEAN :
               ExportPointCloud(j, outcome, written, dbOk)
        \/ \E u, s, f \in Outcomes, leftover \in BOOLEAN :
               DenseReconstruction(j, u, s, f, leftover)
        \/ \E failAt \in StorageFailures : UploadResults(j, failAt)
        \/ \E dbOk, dbOk2 \in BOOLEAN : SaveTechnicalDetails(j, dbOk, dbOk2)
        \/ Complete(j)
        \/ Cleanup(j)
        \/ \E dense, meshing \in BOOLEAN : worker_start_reconstruction(j, dense, meshing)
        \/ \E has_images \in BOOLEAN : reconstruction_task(j, has_images)
        \/ WorkerBegin(j)
        \/ \E outcome \in {"ok", "nonzero"} : WorkerEnd(j, outcome)
        \/ service_start_reconstruction(j)
        \/ process_colmap_reconstruction(j)
        \/ \E has_images \in BOOLEAN : ServiceExcept(j, has_images)
        \/ \E outcome \in [{RequiredStages[i] : i \in 1 .. Len(RequiredStages)}
                                \cup OptionalStages -> {"ok", "nonzero"}],
                 dense, meshing \in BOOLEAN :
               RunCompletePipeline(j, outcome, dense, meshing)

Spec == Init /\ [][Next]_vars

\* ------------------------------------------------------------ SpecSelector
\* The steps of a job that read sparse/ (statistics, export, dense), started
\* from the state in which the mapper has just returned, with every listing
\* of up to MaxComponents components.
InitSelector ==
    \E listing \in Listings(MaxComponents) :
        /\ service = "main"
        /\ storage = {DATABASE_PATH}
        /\ response = NoResponse
        /\ unified = [scan_id \in ScanIds |-> 0]
        /\ results_dir = NoResultsDir
        /\ resolved = [r \in Requests |-> NoParams]
        /\ jobs = [j \in JobIds |->
                [scan_id |-> ScanOf(j), status |-> "processing",
                 message |-> <<"Creating sparse 3D model...">>,
                 quality |-> "medium", progress |-> 80,
                 current_stage |-> "Sparse Reconstruction"]]
        /\ scans = [sc \in {ScanOf(j) : j \in JobIds} |-> [status |-> "pending"]]
        /\ scan_technical_details = {}
        /\ pc = [j \in JobIds |-> "stats"]
        /\ locals = [j \in JobIds |->
                [NoLocals EXCEPT !.quality = "medium", !.frame_count = MinFrames]]
        /\ disk = [j \in JobIds |->
                [EmptyDisk EXCEPT !.database = TRUE, !.sparse = listing]]
        /\ calls = [j \in JobIds |->
                << Call("extract_frames", -1, "ok"),
                   Call("feature_extractor", -1, "ok"),
                   Call("exhaustive_matcher", -1, "ok"),
                   Call("mapper", -1, "ok") >>]

NextSelector ==
    \E j \in JobIds :
        \/ \E statsOk \in BOOLEAN : AnalyzeQuality(j, statsOk)
        \/ \E outcome \in Outcomes, written, dbOk \in BOOLEAN :
               ExportPointCloud(j, outcome, written, dbOk)
        \/ \E u, s, f \in Outcomes, leftover \in BOOLEAN :
               DenseReconstruction(j, u, s, f, leftover)

SpecSelector == InitSelector /\ [][NextSelector]_vars

\* ======================================================================
\* HTTP endpoints
\* ======================================================================
\* Handlers and background tasks of main.py are coroutines of the one event
\* loop uvicorn.run starts (main.py:2508). A background coroutine blocks the
\* loop from its first statement to its last (subprocess.run; the coroutine
\* awaited at main.py:941 never suspends), so a handler runs only while no
\* pipeline is part-way through. A task add_task queued starts later.
EventLoopIdle ==
    \A j \in JobIds : pc[j] \in {"none", "queued", "done", "crashed"}

\* job ids a client may ask about: the ids of JobIds and one never issued
RequestIds == JobIds \cup {"unknown"}

\* raise HTTPException(status_code=404, detail="Job not found")
JobNotFound(job_id) ==
    [endpoint |-> "get_job_status", job_id |-> job_id, code |-> 404,
     detail |-> "Job not found"]

\* the entries of a dictionary under the given keys; a key the dictionary
\* lacks, or holds None under, is left out
Pick(d, keys) == [k \in (keys \cap DOMAIN d) |-> d[k]]

\* What get_job_status answers for a job id that is not in jobs
\* (main.py:1453-1454) while handing every known job over unchanged.
get_job_status_DefaultsUnknown(job_id) ==
    /\ service = "main"
    /\ response' =
            [endpoint |-> "get_job_status", job_id |-> job_id, code |-> 200,
             body |-> IF job_id \in DOMAIN jobs
                      THEN Pick(jobs[job_id], {"status", "message", "results"})
                      ELSE [status |-> "pending"]]
    /\ jobs' = IF job_id \in DOMAIN jobs THEN jobs
               ELSE Put(jobs, job_id, [status |-> "pending", progress |-> 0])
    /\ UNCHANGED <<unified, results_dir, resolved, service, scans,
                   scan_technical_details, pc, locals, disk, calls, storage>>

\* main.py:1450-1467. created_at is left out: time is not modelled.
get_job_status(job_id) ==
    /\ service = "main"
    /\ EventLoopIdle
    /\ response' =
            IF job_id \notin DOMAIN jobs THEN JobNotFound(job_id)
            ELSE [endpoint |-> "get_job_status", job_id |-> job_id, code |-> 200,
                  body |-> [job_id |-> job_id,
                            status |-> jobs[job_id].status,
                            message |-> jobs[job_id].message,
                            progress |-> Get(jobs[job_id], "progress", 0),
                            current_stage |->
                                Get(jobs[job_id], "current_stage", "Unknown")]
                           @@ Pick(jobs[job_id], {"results"})]
    /\ UNCHANGED <<unified, results_dir, resolved, service, jobs, scans,
                   scan_technical_details, pc, locals, disk, calls, storage>>

\* colmap-worker/main.py:518-536. The handler stamps updated_at on the job
\* before answering; the stamp is modelled by the name of its writer.
worker_get_job_status(job_id) ==
    /\ service = "colmap-worker"
    /\ IF job_id \notin DOMAIN jobs
       THEN /\ response' = JobNotFound(job_id)
            /\ jobs' = jobs
       ELSE /\ jobs' = Put(jobs, job_id,
                        Put(jobs[job_id], "updated_at", "get_job_status"))
            /\ response' =
                  [endpoint |-> "get_job_status", job_id |-> job_id, code |-> 200,
                   body |-> [success |-> TRUE, job_id |-> job_id,
                             updated_at |-> "get_job_status"]
                            @@ Pick(jobs[job_id],
                                    {"status", "progress", "message", "results"})]
    /\ UNCHANGED <<unified, results_dir, resolved, service, scans,
                   scan_technical_details, pc, locals, disk, calls, storage>>

\* python-colmap-service/main.py:202-208: the stored JobStatus is returned
service_get_job_status(job_id) ==
    /\ service = "python-colmap-service"
    /\ response' =
            IF job_id \notin DOMAIN jobs THEN JobNotFound(job_id)
            ELSE [endpoint |-> "get_job_status", job_id |-> job_id, code |-> 200,
                  body |-> jobs[job_id]]
    /\ UNCHANGED <<unified, results_dir, resolved, service, jobs, scans,
                   scan_technical_details, pc, locals, disk, calls, storage>>

\* gcp-deployment/colmap-worker/main.py:103-127: the job is stored as queued
gcp_upload_video(j, quality) ==
    /\ service = "gcp-colmap-worker"
    /\ pc[j] = "none"
    /\ jobs' = Put(jobs, j,
            [status |-> "queued", quality |-> quality,
             message |-> <<"Video uploaded successfully.">>])
    /\ pc' = [pc EXCEPT ![j] = "g_queued"]
    /\ response' = [endpoint |-> "upload_video", job_id |-> j, code |-> 200,
                    body |-> [job_id |-> j, status |-> "queued"]]
    /\ UNCHANGED <<unified, results_dir, resolved, service, scans,
                   scan_technical_details, locals, disk, calls, storage>>

\* gcp-deployment/colmap-worker/main.py:129-151: no task runs in this
\* variant; each poll of a known job moves it one status on and returns it.
gcp_get_job_status(job_id) ==
    /\ service = "gcp-colmap-worker"
    /\ LET job == jobs[job_id]
           job1 == IF job.status = "queued"
                   THEN Put(Put(job, "status", "processing"),
                            "message", <<"Extracting frames from video...">>)
                   ELSE IF job.status = "processing"
                   THEN Put(Put(Put(job, "status", "completed"),
                                "message", <<"3D reconstruction completed successfully!">>),
                            "results",
                            [point_cloud_url |-> "/models/{job_id}/pointcloud.ply",
                             mesh_url |-> "/models/{job_id}/mesh.obj",
                             thumbnail_url |-> "/models/{job_id}/thumbnail.jpg"])
                   ELSE job
       IN  IF job_id \notin DOMAIN jobs
           THEN /\ response' = JobNotFound(job_id)
                /\ jobs' = jobs
           ELSE /\ jobs' = Put(jobs, job_id, job1)
                /\ response' = [endpoint |-> "get_job_status", job_id |-> job_id,
                                code |-> 200, body |-> job1]
    /\ UNCHANGED <<unified, results_dir, resolved, service, scans,
                   scan_technical_details, pc, locals, disk, calls, storage>>

\* ---------------------------------------------------------- download_result
\* NoPath: the path names nothing (ENOENT or ENOTDIR)
NoPath == <<"ENOENT">>

\* The file or directory a path names, as the operating system walks it one
\* segment at a time from cur: ".." steps to the parent, any other segment
\* must exist below the directory reached so far. The volume holds no
\* symbolic links, so the result is also what Path.resolve() returns.
RECURSIVE Walk(_, _, _)
Walk(fs, cur, rest) ==
    IF rest = << >> THEN cur
    ELSE IF ~IsDir(fs, cur) THEN NoPath
    ELSE LET seg == Head(rest)
             nxt == IF seg = ".." THEN Parent(cur) ELSE Append(cur, seg)
         IN  IF IsDir(fs, nxt) \/ IsFile(fs, nxt)
             THEN Walk(fs, nxt, Tail(rest))
             ELSE NoPath

\* main.py:1948-1969. filename is the rest of the URL path, split at "/".
download_result(job_id, filename) ==
    /\ service = "main"
    /\ EventLoopIdle
    /\ LET file_path == STORAGE_DIR \o <<job_id>> \o filename
           real_path == Walk(storage, << >>, file_path)
           code == IF real_path = NoPath THEN 404
                   ELSE IF ~IsFile(storage, real_path) THEN 400
                   ELSE IF ~IsPrefix(STORAGE_DIR, real_path) THEN 403
                   ELSE 200
       IN  response' =
              [endpoint |-> "download_result", job_id |-> job_id,
               filename |-> filename, code |-> code]
              @@ (IF code = 200 THEN [path |-> real_path] ELSE << >>)
    /\ UNCHANGED <<unified, results_dir, resolved, service, jobs, scans,
                   scan_technical_details, pc, locals, disk, calls, storage>>

\* ------------------------------------------------------------------ SpecApi
\* The endpoints of the four service variants, served while a job is queued,
\* started and taken through its first stage. The volume already holds the
\* artifacts of HistoricalJob, a job of an earlier run of the service:
\* STORAGE_DIR outlives the process, the jobs dictionary does not.
HistoricalJob == "j0"
AllServices == Services \cup {"gcp-colmap-worker"}
DownloadIds == JobIds \cup {HistoricalJob}
Filenames ==
    { <<"thumbnail.jpg">>, <<"point_cloud.ply">>, <<"images">>,
      <<"..", HistoricalJob, "point_cloud.ply">>,
      <<"..", "..", "database.db">> }

InitApi ==
    /\ service \in AllServices
    /\ storage = {DATABASE_PATH}
            \cup StoredArtifacts(HistoricalJob,
                    [point_cloud_url |-> "", sparse_model_url |-> "",
                     sample_images_dir |-> ""])
    /\ response = NoResponse
    /\ unified = [scan_id \in ScanIds |-> 0]
    /\ results_dir = NoResultsDir
    /\ resolved = [r \in Requests |-> NoParams]
    /\ jobs = << >>
    /\ scans = << >>
    /\ scan_technical_details = {}
    /\ pc = [j \in JobIds |-> "none"]
    /\ locals = [j \in JobIds |-> NoLocals]
    /\ disk = [j \in JobIds |-> EmptyDisk]
    /\ calls = [j \in JobIds |-> << >>]

NextApi ==
    \/ \E j \in JobIds :
        \/ \E q \in Qualities : upload_video(j, q)
        \/ StartPipeline(j)
        \/ \E total \in VideoFrameCounts, thumb, dbOk \in BOOLEAN :
               FrameExtraction(j, total, thumb /\ total > 0, dbOk)
        \/ \E dense, meshing \in BOOLEAN : worker_start_reconstruction(j, dense, meshing)
        \/ \E has_images \in BOOLEAN : reconstruction_task(j, has_images)
        \/ service_start_reconstruction(j)
        \/ process_colmap_reconstruction(j)
        \/ \E has_images \in BOOLEAN : ServiceExcept(j, has_images)
        \/ Cleanup(j)
        \/ \E q \in Qualities : gcp_upload_video(j, q)
    \/ \E job_id \in RequestIds :
        \/ get_job_status(job_id)
        \/ worker_get_job_status(job_id)
        \/ service_get_job_status(job_id)
        \/ gcp_get_job_status(job_id)
    \/ \E job_id \in DownloadIds, filename \in Filenames :
           download_result(job_id, filename)

SpecApi == InitApi /\ [][NextApi]_vars

\* ======================================================================
\* src/main.py: process-unified runs and restarts of the process
\* ======================================================================
\* process-unified runs of one scan that may be waiting at the same time
MaxUnifiedRuns == 2

\* main.py:2349-2370. The handler's HTTPException(404) and (400) are raised
\* inside its own try and leave it as status 500 through `except Exception`.
process_unified_reconstruction(scan_id) ==
    /\ service = "main"
    /\ EventLoopIdle
    /\ unified[scan_id] < MaxUnifiedRuns
    /\ IF scan_id \notin DOMAIN scans
       THEN /\ response' = [endpoint |-> "process_unified_reconstruction",
                            scan_id |-> scan_id, code |-> 500,
                            detail |-> "404: Scan not found"]
            /\ UNCHANGED <<scans, unified>>
       ELSE IF scans[scan_id].status = "processing"
       THEN /\ response' = [endpoint |-> "process_unified_reconstruction",
                            scan_id |-> scan_id, code |-> 500,
                            detail |-> "400: Scan is already being processed"]
            /\ UNCHANGED <<scans, unified>>
       ELSE /\ scans' = update_scan_status(scans, scan_id, "processing")
            /\ unified' = [unified EXCEPT ![scan_id] = @ + 1]
            /\ response' = [endpoint |-> "process_unified_reconstruction",
                            scan_id |-> scan_id, code |-> 200,
                            message |-> "Unified processing started"]
    /\ UNCHANGED <<results_dir, resolved, storage, service, jobs,
                   scan_technical_details, pc, locals, disk, calls>>

\* main.py:2427-2497. The task calls run_dense_reconstruction("high"), which
\* takes no argument (main.py:483): whether an earlier stage returned False
\* or the call raised TypeError, the except clause marks the scan failed.
process_unified_reconstruction_background(scan_id) ==
    /\ service = "main"
    /\ EventLoopIdle
    /\ unified[scan_id] > 0
    /\ scans' = update_scan_status(scans, scan_id, "failed")
    /\ unified' = [unified EXCEPT ![scan_id] = @ - 1]
    /\ UNCHANGED <<results_dir, resolved, response, storage, service, jobs,
                   scan_technical_details, pc, locals, disk, calls>>

\* main.py:92-98: db.get_all_jobs is not a method of database.py, the
\* AttributeError is caught and the result is an empty dictionary
get_jobs == << >>

\* what a job dictionary showed of the run
Shown(job) == Pick(job, {"status", "progress", "current_stage"})

\* The process is killed and started again. main.py:110-111 rebuilds `jobs`
\* from get_jobs(); save_job (main.py:100-107) has no caller, so nothing the
\* driver wrote reaches the store. Background tasks and their local
\* variables are lost with the process; the database and the files stay.
\* The invocation log keeps what each job showed when the process died.
Restart ==
    /\ service = "main"
    /\ \E j \in JobIds : pc[j] \notin {"none", "crashed"}
    /\ calls' = [j \in JobIds |->
                    IF j \in DOMAIN jobs /\ pc[j] # "crashed"
                    THEN calls[j] \o <<Call("restart", Shown(jobs[j]), "killed")>>
                    ELSE calls[j]]
    /\ jobs' = get_jobs
    /\ pc' = [j \in JobIds |-> IF pc[j] = "none" THEN "none" ELSE "crashed"]
    /\ locals' = [j \in JobIds |-> NoLocals]
    /\ unified' = [scan_id \in ScanIds |-> 0]
    /\ UNCHANGED <<results_dir, resolved, response, storage, service, scans,
                   scan_technical_details, disk>>

InitScans ==
    /\ Init
    /\ service = "main"

NextScans ==
    \/ \E j \in JobIds :
        \/ \E q \in Qualities : upload_video(j, q)
        \/ StartPipeline(j)
        \/ \E total \in VideoFrameCounts, thumb, dbOk \in BOOLEAN :
               FrameExtraction(j, total, thumb /\ total > 0, dbOk)
        \/ \E outcome \in Outcomes, dbOk \in BOOLEAN :
               FeatureDetection(j, outcome, dbOk)
        \/ Cleanup(j)
    \/ \E scan_id \in ScanIds :
        \/ process_unified_reconstruction(scan_id)
        \/ process_unified_reconstruction_background(scan_id)
    \/ \E job_id \in RequestIds : get_job_status(job_id)
    \/ Restart

SpecScans == InitScans /\ [][NextScans]_vars

\* ======================================================================
\* src/database.py: the store of scans and technical details, called
\* directly
\* ======================================================================
\* calls of save_scan_technical_details for one scan
MaxSaves == 3

\* dictionaries a caller may pass as technical_data: every column given,
\* only the count, only the results, nothing
TechnicalDataInputs ==
    { Put(Put(Put(<< >>, "point_count", 100),
              "processing_stages",
              << [name |-> "Frame Extraction", status |-> "completed"] >>),
          "results", Put(<< >>, "point_cloud_url", "/results/{job_id}/point_cloud.ply")),
      Put(<< >>, "point_count", 200),
      Put(<< >>, "results", Put(<< >>, "sparse_model_url", "/results/{job_id}/sparse_model.zip")),
      << >> }

\* database.py:193-212: a new row of scans with the table's default status
create_scan(j) ==
    /\ ScanOf(j) \notin DOMAIN scans
    /\ scans' = Put(scans, ScanOf(j), [status |-> "pending"])
    /\ UNCHANGED <<unified, results_dir, resolved, response, storage, service,
                   jobs, scan_technical_details, pc, locals, disk, calls>>

\* database.py:243-253 called for the scan of j
UpdateScanStatus(j, status) ==
    /\ ScanOf(j) \in DOMAIN scans
    /\ scans' = update_scan_status(scans, ScanOf(j), status)
    /\ UNCHANGED <<unified, results_dir, resolved, response, storage, service,
                   jobs, scan_technical_details, pc, locals, disk, calls>>

\* database.py:256-293 called for the scan of j: the row is written and the
\* scan marked completed in one transaction. The invocation log keeps the
\* dictionary of each call.
SaveScanTechnicalDetails(j, technical_data) ==
    /\ ScanOf(j) \in DOMAIN scans
    /\ Len(calls[j]) < MaxSaves
    /\ scan_technical_details' =
            save_scan_technical_details(scan_technical_details, ScanOf(j),
                                        technical_data)
    /\ scans' = update_scan_status(scans, ScanOf(j), "completed")
    /\ calls' = Log(j, <<Call("save_scan_technical_details", technical_data, "ok")>>)
    /\ UNCHANGED <<unified, results_dir, resolved, response, storage, service,
                   jobs, pc, locals, disk>>

InitStore ==
    /\ Init
    /\ service = "main"

NextStore ==
    \E j \in JobIds :
        \/ create_scan(j)
        \/ \E status \in {"processing", "failed"} : UpdateScanStatus(j, status)
        \/ \E technical_data \in TechnicalDataInputs :
               SaveScanTechnicalDetails(j, technical_data)

SpecStore == InitStore /\ [][NextStore]_vars

\* ======================================================================
\* Cancel requests: src/python-colmap-service/main.py,
\* src/backend/app/api/api_v1/endpoints/jobs.py and
\* src/backend/app/api/api_v1/jobs.py
\* ======================================================================
CancelServices == {"python-colmap-service", "backend", "backend-demo"}

\* the members of app.models.job.JobStatus the backend names
\* (endpoints/jobs.py:159-166, tasks/colmap_processing.py:8)
JobStatuses == {"PENDING", "RUNNING", "COMPLETED", "FAILED", "CANCELLED"}

\* backend/app/api/api_v1/jobs.py:13-44
DEMO_JOBS ==
    ("job_001" :> [status |-> "completed", progress |-> 100])
    @@ ("job_002" :> [status |-> "running", progress |-> 75])

\* the rows of ProcessingJob the backend may hold
BackendJobIds == DOMAIN DEMO_JOBS

CancelIds == JobIds \cup BackendJobIds \cup {"unknown"}

CancelResponse(job_id, code, detail) ==
    [endpoint |-> "cancel_job", job_id |-> job_id, code |-> code,
     detail |-> detail]

\* python-colmap-service/main.py:395-407: only a job that is processing is
\* changed; every known job is answered "Job cancelled"
service_cancel_job(job_id) ==
    /\ service = "python-colmap-service"
    /\ IF job_id \notin DOMAIN jobs
       THEN /\ response' = CancelResponse(job_id, 404, "Job not found")
            /\ jobs' = jobs
       ELSE /\ jobs' = IF jobs[job_id].status = "processing"
                       THEN Put(jobs, job_id,
                                Put(Put(jobs[job_id], "status", "cancelled"),
                                    "message", <<"Job cancelled by user">>))
                       ELSE jobs
            /\ response' = CancelResponse(job_id, 200, "Job cancelled")
    /\ UNCHANGED <<unified, results_dir, resolved, storage, service, scans,
                   scan_technical_details, pc, locals, disk, calls>>

\* backend/app/api/api_v1/endpoints/jobs.py:136-183. commitOk: db.commit()
\* returned; otherwise the session is rolled back and the answer is 500.
backend_cancel_job(job_id, commitOk) ==
    /\ service = "backend"
    /\ IF job_id \notin DOMAIN jobs
       THEN /\ response' = CancelResponse(job_id, 404, "Job not found")
            /\ jobs' = jobs
       ELSE IF jobs[job_id].status \notin {"PENDING", "RUNNING"}
       THEN /\ response' = CancelResponse(job_id, 400,
                    "Job cannot be cancelled in its current status")
            /\ jobs' = jobs
       ELSE IF commitOk
       THEN /\ jobs' = Put(jobs, job_id, Put(jobs[job_id], "status", "CANCELLED"))
            /\ response' = CancelResponse(job_id, 200, "Job cancelled successfully")
       ELSE /\ response' = CancelResponse(job_id, 500, "Failed to cancel job")
            /\ jobs' = jobs
    /\ UNCHANGED <<unified, results_dir, resolved, storage, service, scans,
                   scan_technical_details, pc, locals, disk, calls>>

\* backend/app/api/api_v1/jobs.py:68-85
demo_cancel_job(job_id) ==
    /\ service = "backend-demo"
    /\ IF job_id \notin DOMAIN jobs
       THEN /\ response' = CancelResponse(job_id, 404, "Job not found")
            /\ jobs' = jobs
       ELSE IF jobs[job_id].status \in {"completed", "failed", "cancelled"}
       THEN /\ response' = CancelResponse(job_id, 400, "Job cannot be cancelled")
            /\ jobs' = jobs
       ELSE /\ jobs' = Put(jobs, job_id, Put(jobs[job_id], "status", "cancelled"))
            /\ response' = CancelResponse(job_id, 200, "Job cancelled successfully")
    /\ UNCHANGED <<unified, results_dir, resolved, storage, service, scans,
                   scan_technical_details, pc, locals, disk, calls>>

\* The python service starts with no job, the demo router with DEMO_JOBS,
\* the backend with the rows its database holds.
InitCancel ==
    /\ service \in CancelServices
    /\ jobs \in IF service = "backend"
                THEN {[id \in BackendJobIds |-> [status |-> st[id], progress |-> 0]] :
                        st \in [BackendJobIds -> JobStatuses]}
                ELSE IF service = "backend-demo" THEN {DEMO_JOBS}
                ELSE {<< >>}
    /\ storage = {}
    /\ response = NoResponse
    /\ unified = [scan_id \in ScanIds |-> 0]
    /\ results_dir = NoResultsDir
    /\ resolved = [r \in Requests |-> NoParams]
    /\ scans = << >>
    /\ scan_technical_details = {}
    /\ pc = [j \in JobIds |-> "none"]
    /\ locals = [j \in JobIds |-> NoLocals]
    /\ disk = [j \in JobIds |-> EmptyDisk]
    /\ calls = [j \in JobIds |-> << >>]

NextCancel ==
    \/ \E j \in JobIds :
        \/ service_start_reconstruction(j)
        \/ process_colmap_reconstruction(j)
        \/ \E has_images \in BOOLEAN : ServiceExcept(j, has_images)
    \/ \E job_id \in CancelIds :
        \/ service_cancel_job(job_id)
        \/ \E commitOk \in BOOLEAN : backend_cancel_job(job_id, commitOk)
        \/ demo_cancel_job(job_id)

SpecCancel == InitCancel /\ [][NextCancel]_vars

\* ======================================================================
\* Quality tiers: the parameters each resolver hands to the stages
\* ======================================================================
\* main.py:282-293 (COLMAPProcessor.run_feature_extraction)
run_feature_extraction(quality) ==
    IF quality = "low"
    THEN [max_image_size |-> 2048, max_num_features |-> 16384]
    ELSE IF quality = "medium"
    THEN [max_image_size |-> 4096, max_num_features |-> 32768]
    ELSE [max_image_size |-> 8192, max_num_features |-> 65536]

\* main.py:336-350 (COLMAPProcessor.run_feature_matching)
run_feature_matching(quality) ==
    IF quality = "low" THEN [max_num_matches |-> 65536]
    ELSE IF quality = "medium" THEN [max_num_matches |-> 131072]
    ELSE [max_num_matches |-> 262144]

\* What process_video_pipeline passes to its stages for a tier: the frame
\* cap (main.py:835), the feature extraction and matching caps, and whether
\* the dense stage runs (main.py:924).
StageParameters(quality) ==
    run_feature_extraction(quality) @@ run_feature_matching(quality)
    @@ [max_frames |-> MaxFramesFor(quality), dense |-> DenseEnabled(quality)]

\* colmap-worker/main.py:79-104
quality_params ==
    [low |-> [max_image_size |-> 800, max_num_features |-> 4000],
     medium |-> [max_image_size |-> 1200, max_num_features |-> 8000],
     high |-> [max_image_size |-> 1600, max_num_features |-> 12000],
     extreme |-> [max_image_size |-> 2400, max_num_features |-> 20000]]

\* colmap-worker/main.py:218: quality_params.get(quality, quality_params["medium"])
worker_feature_extraction(quality) ==
    IF quality \in DOMAIN quality_params THEN quality_params[quality]
    ELSE quality_params["medium"]

\* colmap-worker/colmap_pipeline.py:95-110 (COLMAPPipeline.feature_extraction)
pipeline_feature_extraction(quality) ==
    IF quality = "high"
    THEN [max_image_size |-> 3200, max_num_features |-> 8192]
    ELSE IF quality = "medium"
    THEN [max_image_size |-> 1600, max_num_features |-> 4096]
    ELSE [max_image_size |-> 800, max_num_features |-> 2048]

\* colmap_processor.py:105-120 (COLMAPProcessor.extract_features)
extract_features(quality) ==
    LET params == [low |-> [max_num_features |-> 16384, max_image_size |-> 2048],
                   medium |-> [max_num_features |-> 32768, max_image_size |-> 4096],
                   high |-> [max_num_features |-> 65536, max_image_size |-> 8192]]
    IN  IF quality \in DOMAIN params THEN params[quality] ELSE params["medium"]

\* what is kept of a resolution: who resolved, for which tier, to what
Resolution(resolver, quality, params) ==
    [resolver |-> resolver, quality |-> quality, params |-> params]

ResolveStageParameters(r, quality) ==
    /\ resolved' = [resolved EXCEPT ![r] =
            Resolution("process_video_pipeline", quality, StageParameters(quality))]
    /\ UNCHANGED <<unified, results_dir, service, jobs, scans,
                   scan_technical_details, pc, locals, disk, calls, storage,
                   response>>

ResolveWorkerFeatureExtraction(r, quality) ==
    /\ resolved' = [resolved EXCEPT ![r] =
            Resolution("colmap-worker/main.py", quality,
                       worker_feature_extraction(quality))]
    /\ UNCHANGED <<unified, results_dir, service, jobs, scans,
                   scan_technical_details, pc, locals, disk, calls, storage,
                   response>>

ResolvePipelineFeatureExtraction(r, quality) ==
    /\ resolved' = [resolved EXCEPT ![r] =
            Resolution("colmap-worker/colmap_pipeline.py", quality,
                       pipeline_feature_extraction(quality))]
    /\ UNCHANGED <<unified, results_dir, service, jobs, scans,
                   scan_technical_details, pc, locals, disk, calls, storage,
                   response>>

ResolveExtractFeatures(r, quality) ==
    /\ resolved' = [resolved EXCEPT ![r] =
            Resolution("colmap_processor.py", quality, extract_features(quality))]
    /\ UNCHANGED <<unified, results_dir, service, jobs, scans,
                   scan_technical_details, pc, locals, disk, calls, storage,
                   response>>

NextTiers ==
    \E r \in Requests, quality \in Qualities :
        \/ ResolveStageParameters(r, quality)
        \/ ResolveWorkerFeatureExtraction(r, quality)
        \/ ResolvePipelineFeatureExtraction(r, quality)
        \/ ResolveExtractFeatures(r, quality)

SpecTiers == Init /\ [][NextTiers]_vars

\* ======================================================================
\* src/fix_existing_reconstructions.py
\* ======================================================================
\* runs of the utility over the same job directory
MaxRuns == 2

\* fix_existing_reconstructions.py:12-44. zip: sparse_model.zip of the job
\* directory, its sparse/ entries in the order iterdir() lists them after
\* extraction. -1 stands for None.
find_best_sparse_model(zip) ==
    IF ~zip.present THEN -1
    ELSE LET models == SelectSeq(zip.listing, LAMBDA c : c.points)
         IN  IF models = << >> THEN -1 ELSE MaxBySize(models).name

\* the entry of a listing with the given name
ModelDir(listing, name) ==
    LET i == CHOOSE k \in 1 .. Len(listing) : listing[k].name = name
    IN  listing[i]

\* fix_existing_reconstructions.py:46-64. model_converter reads the same
\* files on every run: it writes a PLY when the model has its cameras and
\* points, one record per point, and exits non-zero otherwise.
export_to_ply(model_dir) ==
    IF model_dir.cameras /\ model_dir.points
    THEN [exists |-> TRUE, size |-> model_dir.size, model |-> model_dir.name]
    ELSE NoFile

\* fix_existing_reconstructions.py:104: current_size == 0 or
\* new_size > current_size * 1.5
SignificantlyBetter(current_size, new_size) ==
    current_size = 0 \/ 2 * new_size > 3 * current_size

\* A cleanup that removes the archive along with its extracted copy.
CleanupTemp_RemovesZip(dir) ==
    [dir EXCEPT !.temp = FALSE, !.zip = [present |-> FALSE]]

\* fix_existing_reconstructions.py:117-121: temp_sparse is removed, the zip
\* and the point clouds stay
CleanupTemp(dir) == [dir EXCEPT !.temp = FALSE]

\* fix_existing_reconstructions.py:76-123: the body of main's loop for one
\* job directory
FixJobDir(dir) ==
    IF ~dir.zip.present THEN [dir EXCEPT !.chosen = -1]
    ELSE LET best_model == find_best_sparse_model(dir.zip)
             current_size == IF dir.ply.exists THEN dir.ply.size ELSE 0
         IN  IF best_model = -1
             THEN [dir EXCEPT !.temp = TRUE, !.chosen = -1]
             ELSE LET new_ply == export_to_ply(ModelDir(dir.zip.listing, best_model))
                      replaced ==
                          IF new_ply.exists
                             /\ SignificantlyBetter(current_size, new_ply.size)
                          THEN [dir EXCEPT
                                   !.old = IF dir.ply.exists THEN dir.ply ELSE @,
                                   !.ply = new_ply]
                          ELSE dir
                  IN  CleanupTemp([replaced EXCEPT !.chosen = best_model])

\* fix_existing_reconstructions.py:66-125: one run of the utility
fix_existing_reconstructions ==
    /\ results_dir.runs < MaxRuns
    /\ results_dir' = [FixJobDir(results_dir) EXCEPT !.runs = @ + 1]
    /\ UNCHANGED <<unified, service, jobs, scans, scan_technical_details, pc,
                   locals, disk, calls, storage, response, resolved>>

\* sizes of the point_cloud.ply the job directory holds before the first run
OriginalPlySizes == {100, 4000}

\* The job directory as a pipeline run left it: sparse_model.zip with the
\* components of sparse/, or none, and point_cloud.ply exported from some
\* component, or none.
InitRepair ==
    /\ service = "main"
    /\ storage = {DATABASE_PATH}
    /\ response = NoResponse
    /\ unified = [scan_id \in ScanIds |-> 0]
    /\ resolved = [r \in Requests |-> NoParams]
    /\ jobs = << >>
    /\ scans = << >>
    /\ scan_technical_details = {}
    /\ pc = [j \in JobIds |-> "none"]
    /\ locals = [j \in JobIds |-> NoLocals]
    /\ disk = [j \in JobIds |-> EmptyDisk]
    /\ calls = [j \in JobIds |-> << >>]
    /\ \E zip \in {[present |-> FALSE]}
                  \cup { [present |-> TRUE, listing |-> l] :
                            l \in Listings(MaxComponents) },
          ply \in {NoFile}
                  \cup { [exists |-> TRUE, size |-> n, model |-> -1] :
                            n \in OriginalPlySizes } :
            results_dir = [NoResultsDir EXCEPT !.zip = zip, !.ply = ply]

NextRepair == fix_existing_reconstructions

SpecRepair == InitRepair /\ [][NextRepair]_vars

\* ----------------------------------------------------------------------
\* Properties
\* ----------------------------------------------------------------------
\* The label the driver gives each stage in current_stage (main.py:824,
\* 858, 868, 878, 911, 925, 938); error_details.stage carries this label.
StageLabel ==
    [frame_extraction |-> "Frame Extraction",
     feature_detection |-> "Feature Detection",
     feature_matching |-> "Feature Matching",
     sparse_reconstruction |-> "Sparse Reconstruction",
     model_export |-> "Exporting Point Cloud",
     dense_reconstruction |-> "Dense Reconstruction",
     packaging |-> "Uploading Results"]

Ops(j) == { calls[j][i].op : i \in 1 .. Len(calls[j]) }
Invoked(j, op) == op \in Ops(j)
Ended(j, op, outcomes) ==
    \E i \in 1 .. Len(calls[j]) :
        calls[j][i].op = op /\ calls[j][i].outcome \in outcomes
DenseOps == {"image_undistorter", "patch_match_stereo", "stereo_fusion"}
AfterMatchingOps ==
    {"mapper", "model_converter", "upload_results_to_storage"} \cup DenseOps
\* the jobs process_video_pipeline drives
PipelineJobs == IF service = "main" THEN JobIds ELSE {}
Terminal(j) == j \in DOMAIN jobs /\ jobs[j].status \in {"completed", "failed"}
HasResults(j) == j \in DOMAIN jobs /\ "results" \in DOMAIN jobs[j]
HasError(j) == j \in DOMAIN jobs /\ "error_details" \in DOMAIN jobs[j]

StatusStep(s, t) ==
    \/ s = "pending" /\ t = "processing"
    \/ s = "processing" /\ t \in {"completed", "failed"}

\* C1: a job of process_video_pipeline is created as pending and its status
\* only ever steps pending -> processing and processing -> completed or
\* failed; nothing leaves completed or failed.
C1_StatusHistory ==
    [][\A j \in PipelineJobs :
          /\ (j \notin DOMAIN jobs /\ j \in DOMAIN jobs')
                => jobs'[j].status = "pending"
          /\ (j \in DOMAIN jobs)
                => /\ j \in DOMAIN jobs'
                   /\ \/ jobs'[j].status = jobs[j].status
                      \/ StatusStep(jobs[j].status, jobs'[j].status)]_vars

C1_Witness ==
    \E j \in PipelineJobs :
        pc[j] = "done" /\ jobs[j].status = "completed"

\* C2: the progress of a job never decreases from one write to the next,
\* the failure path included, and a completed job shows exactly 100.
C2_Progress ==
    /\ [][\A j \in JobIds :
             (j \in DOMAIN jobs /\ j \in DOMAIN jobs')
                => jobs'[j].progress >= jobs[j].progress]_vars
    /\ [](\A j \in DOMAIN jobs :
             jobs[j].status = "completed" => jobs[j].progress = 100)

C2_Witness ==
    \E j \in PipelineJobs :
        /\ pc[j] = "done" /\ jobs[j].status = "failed"
        /\ jobs[j].progress = 85

\* C3: when the feature matcher fails, the job is failed with the stage
\* label of feature matching in error_details, no later stage was invoked
\* and the job has no results.
C3_MatchingFailure ==
    \A j \in PipelineJobs :
        Ended(j, "exhaustive_matcher", {"nonzero", "timeout"})
            => /\ jobs[j].status = "failed"
               /\ HasError(j)
               /\ jobs[j].error_details.stage = StageLabel.feature_matching
               /\ Ops(j) \cap AfterMatchingOps = {}
               /\ ~HasResults(j)

C3_Witness ==
    \E j \in PipelineJobs :
        /\ Ended(j, "exhaustive_matcher", {"timeout"})
        /\ Ended(j, "feature_extractor", {"ok"})
        /\ pc[j] = "done"

\* the dense stage of job j ran and run_dense_reconstruction returned False
DenseFailed(j) ==
    \E op \in DenseOps : Ended(j, op, {"nonzero", "timeout"})
DenseTimedOut(j) ==
    \E op \in DenseOps : Ended(j, op, {"timeout"})
\* the packager ran for job j and recorded no storage error
PackagedOk(j) == Ended(j, "upload_results_to_storage", {"ok"})

\* C4: a completed job whose dense stage reported failure (at any of its
\* three steps) carries the sparse point cloud and no dense artifact,
\* whatever the failed stage left in dense/.
C4_DenseFailureKeepsSparse ==
    \A j \in PipelineJobs :
        (j \in DOMAIN jobs /\ jobs[j].status = "completed"
            /\ DenseFailed(j) /\ PackagedOk(j))
            => /\ "point_cloud_url" \in DOMAIN jobs[j].results
               /\ jobs[j].results.point_cloud_type = "sparse"

\* C5: fewer extracted frames than the minimum: the job is failed with the
\* stage label of frame extraction and nothing after frame extraction was
\* invoked.
C5_FrameShortage ==
    \A j \in PipelineJobs :
        (Invoked(j, "extract_frames") /\ locals[j].frame_count < MinFrames)
            => /\ jobs[j].status = "failed"
               /\ HasError(j)
               /\ jobs[j].error_details.stage = StageLabel.frame_extraction
               /\ Ops(j) = {"extract_frames"}

C5_Witness ==
    \E j \in PipelineJobs :
        /\ Invoked(j, "extract_frames")
        /\ locals[j].frame_count = MinFrames - 1
        /\ jobs[j].status = "failed"

\* sparse/ holds no directory with both cameras.bin and points3D.bin
NoValidComponent(listing) ==
    \A i \in 1 .. Len(listing) : ~(listing[i].cameras /\ listing[i].points)

\* C7: the mapper exited with status 0 and sparse/ holds no valid component:
\* the job never completes, ends failed, nothing is converted or packaged
\* and no technical-details row exists for its scan. (Cleanup, the only step
\* after the failure, leaves the job and the store as they are.)
C7_NoComponentIsFatal ==
    \A j \in PipelineJobs :
        (Ended(j, "mapper", {"ok"}) /\ pc[j] # "done"
            /\ NoValidComponent(disk[j].sparse))
            => /\ jobs[j].status # "completed"
               /\ pc[j] \notin {"stats", "export"} => jobs[j].status = "failed"
               /\ ~Invoked(j, "upload_results_to_storage")
               /\ ~Invoked(j, "model_converter")
               /\ RowsOf(scan_technical_details, jobs[j].scan_id) = {}

C7_Witness ==
    \E j \in PipelineJobs :
        /\ Ended(j, "mapper", {"ok"}) /\ pc[j] = "finally"
        /\ disk[j].sparse # << >>
        /\ NoValidComponent(disk[j].sparse)
        /\ jobs[j].status = "failed"

C9_DenseTimeoutRecorded ==
    \A j \in PipelineJobs :
        (j \in DOMAIN jobs /\ jobs[j].quality = "high"
            /\ jobs[j].status = "completed" /\ DenseTimedOut(j) /\ PackagedOk(j))
            => /\ jobs[j].results.point_cloud_type = "sparse"
               /\ \E row \in RowsOf(scan_technical_details, jobs[j].scan_id) :
                    \E i \in 1 .. Len(row.processing_stages.array) :
                        LET st == row.processing_stages.array[i]
                        IN  /\ st.name = StageLabel.dense_reconstruction
                            /\ st.status \in {"failed", "skipped"}

\* C10: no job has results and error_details at the same time.
C10_ResultsXorError ==
    \A j \in JobIds : ~(HasResults(j) /\ HasError(j))

C10_Witness ==
    \E j \in PipelineJobs :
        /\ HasError(j) /\ Invoked(j, "upload_results_to_storage")
        /\ locals[j].results_urls # << >>

\* the component the selector is specified to return: among the valid
\* candidates of largest size, the one whose name comes first; -1 for none
LexFirstLargest(listing) ==
    LET cands == { listing[i] : i \in { k \in 1 .. Len(listing) :
                            listing[k].cameras /\ listing[k].points } }
        largest == { c \in cands : \A d \in cands : d.size <= c.size }
    IN  IF cands = {} THEN -1
        ELSE (CHOOSE c \in largest : \A d \in largest : c.name <= d.name).name

\* C6: the component handed to the converter by export_sparse_to_ply is the
\* largest candidate, the lexically first one among candidates of equal
\* size, and with no candidate nothing is selected and the export fails.
C6_BestModelSelected ==
    \A j \in PipelineJobs :
        pc[j] \in {"dense", "upload", "finally"}
            => LET want == LexFirstLargest(disk[j].sparse)
               IN  IF want = -1
                   THEN ~Invoked(j, "model_converter") /\ jobs[j].status = "failed"
                   ELSE \E i \in 1 .. Len(calls[j]) :
                            /\ calls[j][i].op = "model_converter"
                            /\ calls[j][i].arg = want

\* the last response answers a status poll for job_id
PollAnswered(job_id) ==
    response.endpoint = "get_job_status" /\ response.job_id = job_id

\* C11: download_result answers with a file only when the file lies inside
\* the artifact directory of the job named in the request,
\* STORAGE_DIR/job_id.
C11_DownloadStaysInJobDir ==
    (response.endpoint = "download_result" /\ response.code = 200)
        => IsPrefix(STORAGE_DIR \o <<response.job_id>>, response.path)

\* C12: a status poll for a job id that is not in jobs is answered 404 in
\* every service variant, and answering it leaves jobs as it was.
C12_UnknownJobNotFound ==
    /\ [](\A job_id \in RequestIds :
            (PollAnswered(job_id) /\ job_id \notin DOMAIN jobs)
                => response.code = 404)
    /\ [][(response' # response /\ response'.endpoint = "get_job_status"
              /\ response'.job_id \notin DOMAIN jobs)
            => (response'.code = 404 /\ jobs' = jobs)]_vars

C12_Witness ==
    /\ PollAnswered("unknown") /\ response.code = 404
    /\ jobs # << >>

\* C13: the answer to a status poll for a failed job of process_video_pipeline
\* carries the error details the driver recorded for it.
C13_FailedJobShowsErrorDetails ==
    \A job_id \in PipelineJobs :
        (PollAnswered(job_id) /\ response.code = 200
            /\ response.body.status = "failed")
            => /\ "error_details" \in DOMAIN response.body
               /\ response.body.error_details = jobs[job_id].error_details

\* the tiers of the specification, in their order
TierRank == [low |-> 1, medium |-> 2, high |-> 3, extreme |-> 4]
SameResolver(x, y) ==
    resolved[x].resolver # "none" /\ resolved[x].resolver = resolved[y].resolver

\* C14: when one resolver resolves two tiers, the higher tier gets a feature
\* cap and an image size cap at least as large as the lower one.
C14_TierCapsMonotone ==
    \A x, y \in Requests :
        (SameResolver(x, y)
            /\ resolved[x].quality \in DOMAIN TierRank
            /\ resolved[y].quality \in DOMAIN TierRank
            /\ TierRank[resolved[x].quality] <= TierRank[resolved[y].quality])
            => /\ resolved[x].params.max_num_features
                    <= resolved[y].params.max_num_features
               /\ resolved[x].params.max_image_size
                    <= resolved[y].params.max_image_size

\* C15: a tier name outside low, medium, high, extreme resolves to exactly
\* the parameters of "medium", in every resolver and for every stage.
C15_UnknownTierIsMedium ==
    \A x, y \in Requests :
        (SameResolver(x, y)
            /\ resolved[x].quality \notin DOMAIN TierRank
            /\ resolved[y].quality = "medium")
            => resolved[x].params = resolved[y].params

ProcessingJobsOf(scan_id) ==
    {j \in DOMAIN jobs : /\ Get(jobs[j], "scan_id", "") = scan_id
                         /\ jobs[j].status = "processing"}

\* C17: for every scan, at most one run is in the processing state: the
\* pipeline runs of the upload driver marked processing and the accepted
\* process-unified runs of the scan are never more than one together.
C17_OneRunPerScan ==
    \A scan_id \in ScanIds :
        Cardinality(ProcessingJobsOf(scan_id)) + unified[scan_id] <= 1

\* C18: a poll for a job that was in flight when the process was killed
\* answers 200 with the status, progress and stage the job showed last.
C18_PollAfterRestart ==
    \A j \in JobIds :
        (pc[j] = "crashed" /\ PollAnswered(j))
            => /\ response.code = 200
               /\ Shown(response.body) = calls[j][Len(calls[j])].arg

\* the last call the invocation log of j holds
LastCall(j) == calls[j][Len(calls[j])]

\* C19: after calls of save_scan_technical_details for a scan, the table
\* holds exactly one row for the scan, and the row is the one the most
\* recent call bound: no column keeps a value of an earlier call.
C19_LastSaveWins ==
    \A j \in JobIds :
        (calls[j] # << >> /\ LastCall(j).op = "save_scan_technical_details")
            => LET rows == RowsOf(scan_technical_details, ScanOf(j))
               IN  /\ Cardinality(rows) = 1
                   /\ \A row \in rows :
                        /\ row.point_count
                              = Get(LastCall(j).arg, "point_count", NULL)
                        /\ row = RowFor(ScanOf(j), LastCall(j).arg)

C19_Witness ==
    \E j \in JobIds :
        /\ Len(calls[j]) >= 2
        /\ calls[j][1].op = "save_scan_technical_details"
        /\ "results" \in DOMAIN calls[j][1].arg
        /\ LastCall(j).op = "save_scan_technical_details"
        /\ "results" \notin DOMAIN LastCall(j).arg
        /\ \E row \in RowsOf(scan_technical_details, ScanOf(j)) :
               row.results = json_object(<< >>)

\* statuses of a job that has not ended, and of a cancelled job, in the
\* vocabularies of the three services
InFlightStatuses == {"pending", "processing", "running", "PENDING", "RUNNING"}
CancelledStatuses == {"cancelled", "CANCELLED"}

\* C20: a cancel request that the store did not fail moves a pending or
\* processing job to cancelled and leaves the status of a job in a terminal
\* state unchanged.
C20_CancelMovesInFlightJobs ==
    [][\A job_id \in DOMAIN jobs :
         (/\ response' # response
          /\ response'.endpoint = "cancel_job"
          /\ response'.job_id = job_id
          /\ response'.code # 500)
            => IF jobs[job_id].status \in InFlightStatuses
               THEN jobs'[job_id].status \in CancelledStatuses
               ELSE jobs'[job_id].status = jobs[job_id].status]_vars

PollFields(job) == Pick(job, {"status", "progress", "message", "results"})

\* C22: a status poll of a known job changes none of the job's status,
\* progress, message and results, and reports the status the job had.
C22_PollIsPureRead ==
    [][\A j \in DOMAIN jobs :
         (/\ pc' = pc
          /\ response'.endpoint = "get_job_status"
          /\ response'.job_id = j
          /\ response'.code = 200
          /\ (response' # response \/ jobs' # jobs))
            => /\ PollFields(jobs'[j]) = PollFields(jobs[j])
               /\ response'.body.status = jobs[j].status]_vars

\* the place of a stage command in the order of stages
StageRank ==
    [extract_frames |-> 1, feature_extractor |-> 2, feature_extraction |-> 2,
     exhaustive_matcher |-> 3, feature_matching |-> 3,
     mapper |-> 4, sparse_reconstruction |-> 4, model_converter |-> 5,
     image_undistorter |-> 6, dense_reconstruction |-> 6,
     patch_match_stereo |-> 7, stereo_fusion |-> 8]

\* the ranks of the required stages that come before a stage command:
\* process_video_pipeline exports before its dense commands,
\* run_complete_pipeline has no export stage
RequiredRanksBefore(op) ==
    IF op \in DenseOps THEN 1 .. 5
    ELSE {r \in 1 .. 4 : r < StageRank[op]}

\* the jobs whose stages process_video_pipeline or run_complete_pipeline
\* invokes
StagedJobs == IF service \in {"main", "colmap-pipeline"} THEN JobIds ELSE {}

\* C23: the stage commands of a job are invoked in the order of stages,
\* each at most once, and each only after every required stage before it
\* was invoked and returned success.
C23_StagesInOrderOnce ==
    \A j \in StagedJobs :
        \A k \in 1 .. Len(calls[j]) :
            calls[j][k].op \in DOMAIN StageRank
                => /\ \A i \in 1 .. (k - 1) :
                        calls[j][i].op \in DOMAIN StageRank
                            => StageRank[calls[j][i].op] < StageRank[calls[j][k].op]
                   /\ \A r \in RequiredRanksBefore(calls[j][k].op) :
                        \E i \in 1 .. (k - 1) :
                            /\ calls[j][i].op \in DOMAIN StageRank
                            /\ StageRank[calls[j][i].op] = r
                            /\ calls[j][i].outcome = "ok"

C23_Witness ==
    \E j \in StagedJobs :
        /\ service = "main"
        /\ Ended(j, "model_converter", {"ok"})
        /\ Ended(j, "patch_match_stereo", {"timeout"})
        /\ ~Invoked(j, "stereo_fusion")
        /\ pc[j] = "done"

\* what the job shows after a required stage command did not succeed: the
\* stage label in error_details and the progress it stopped at
FatalOutcome ==
    [feature_extractor |-> [stage |-> StageLabel.feature_detection, progress |-> 20],
     exhaustive_matcher |-> [stage |-> StageLabel.feature_matching, progress |-> 40],
     mapper |-> [stage |-> StageLabel.sparse_reconstruction, progress |-> 60],
     model_converter |-> [stage |-> StageLabel.model_export, progress |-> 85]]

\* C24: a stage command that timed out leaves the job as the same command
\* exiting non-zero does. For feature detection, matching, sparse
\* reconstruction and export either one fails the job with the stage's
\* label, the progress reached before the stage and no results; for the
\* dense commands either one lets the job go on to the packager, and the
\* dense stage is never the stage of a failure.
C24_TimeoutSameAsNonzero ==
    \A j \in PipelineJobs :
        pc[j] = "done"
            => /\ \A op \in DOMAIN FatalOutcome :
                    Ended(j, op, {"nonzero", "timeout"})
                        => /\ jobs[j].status = "failed"
                           /\ HasError(j)
                           /\ jobs[j].error_details.stage = FatalOutcome[op].stage
                           /\ jobs[j].progress = FatalOutcome[op].progress
                           /\ ~HasResults(j)
               /\ DenseFailed(j)
                    => /\ Invoked(j, "upload_results_to_storage")
                       /\ HasError(j)
                            => jobs[j].error_details.stage
                                    # StageLabel.dense_reconstruction

C24_Witness ==
    \E j \in PipelineJobs :
        /\ pc[j] = "done"
        /\ Ended(j, "image_undistorter", {"timeout"})
        /\ jobs[j].status = "completed"

\* C25: for a failed job the packager was never invoked, and the volume
\* holds no packaged artifact of the job.
C25_FailedJobNotPackaged ==
    \A j \in PipelineJobs :
        (j \in DOMAIN jobs /\ jobs[j].status = "failed")
            => /\ ~Invoked(j, "upload_results_to_storage")
               /\ STORAGE_DIR \o <<j, "point_cloud.ply">> \notin storage

\* C26: while a job of the upload driver is processing, the store holds no
\* technical-details row for its scan and the scan is not marked completed.
C26_DetailsOnlyAfterTerminal ==
    \A j \in PipelineJobs :
        (j \in DOMAIN jobs /\ jobs[j].status = "processing")
            => /\ RowsOf(scan_technical_details, jobs[j].scan_id) = {}
               /\ scans[jobs[j].scan_id].status # "completed"

\* C27: when a job of the upload driver is completed or failed, the stored
\* status of its scan is the job's status.
C27_ScanMirrorsTerminalJob ==
    \A j \in PipelineJobs :
        Terminal(j) => scans[jobs[j].scan_id].status = jobs[j].status

\* C28: the results of a completed job hold a point-cloud address and no
\* error entry.
C28_ResultsOnlyArtifacts ==
    \A j \in PipelineJobs :
        (j \in DOMAIN jobs /\ jobs[j].status = "completed")
            => /\ "error" \notin DOMAIN jobs[j].results
               /\ "point_cloud_url" \in DOMAIN jobs[j].results

\* C29: in the colmap-worker and the python-colmap-service, a finished
\* reconstruction whose sparse reconstruction succeeded and whose requested
\* dense reconstruction failed is completed.
C29_DenseFailureNotFatalInWorker ==
    service \in {"colmap-worker", "python-colmap-service"} =>
        \A j \in JobIds :
            ( /\ pc[j] = "done"
              /\ j \in DOMAIN jobs
              /\ Ended(j, "mapper", {"ok"})
              /\ \E op \in DenseOps : Ended(j, op, Outcomes \ {"ok"}) )
                => jobs[j].status = "completed"

\* C30: within one job, the component handed to the PLY converter, the
\* component handed to dense reconstruction and the component whose
\* points3D.bin size gives the saved point count are one and the same.
C30_OneBestModelPerJob ==
    \A j \in PipelineJobs :
        \A i \in 1 .. Len(calls[j]) :
            calls[j][i].op \in {"model_converter", "image_undistorter"}
                => calls[j][i].arg = StatsBestModel(disk[j].sparse)
====
